---- MODULE Spec2Model ----
(***************************************************************************)
(* The problematic-text span locator and highlighter of PlainSight        *)
(* (src/utils/text_highlighter.py, class LegalTextAnalyzer).               *)
(*                                                                         *)
(* Python strings are modelled as sequences of one-character strings, so   *)
(* that offsets, slices, substring tests and the regular expression the   *)
(* locator builds are computed character by character.                     *)
(***************************************************************************)
EXTENDS Integers, Sequences, FiniteSets, TLC

VARIABLES clause_text, problematic_segments, pc, positions, segments,
          merged_segments, result, annotations, normalized, dom, session

vars == <<clause_text, problematic_segments, pc, positions, segments,
          merged_segments, result, annotations, normalized, dom,
          session>>

(***************************************************************************)
(* Bounds of the checked input space.                                      *)
(***************************************************************************)
MaxTextLen == 3

MaxExLen == 2

MaxSegs == 2

LocTextLen == 4

LocExLen == 3

MaxManySegs == 10

ManyTextLen == 2

RecTextLen == 2

RecExLen == 1

RecSegs == 2

LitTextLen == 3

LitExLen == 3

NormTextLen == 5

NormCalls == 2

MaxClicks == 1

SessClauses == 2

Alphabet == {"a", "b", " "}

LocAlphabet == {"a", "b", " ", "\n"}

ManyAlphabet == {"a", "b"}

LitAlphabet == {"a", "A", " ", ".", "\\"}

NormAlphabet == {"a", "b", " ", "\t", "\n"}

SeqsUpTo(S, n) == UNION {[1..k -> S] : k \in 0..n}

(***************************************************************************)
(* Python string primitives.                                               *)
(***************************************************************************)
\* Characters matched by \s and removed by str.strip().
Whitespace == {" ", "\t", "\n", "\r"}

\* s[i:j] with 0 <= i, j (Python clamps the slice to the string).
Slice(s, i, j) ==
    LET hi == IF j > Len(s) THEN Len(s) ELSE j
    IN  IF i >= hi THEN <<>> ELSE SubSeq(s, i + 1, hi)

\* needle in hay, for strings.
StrContains(hay, needle) ==
    \E p \in 0..(Len(hay) - Len(needle)) : Slice(hay, p, p + Len(needle)) = needle

RECURSIVE LStrip(_)
LStrip(s) ==
    IF s = <<>> THEN <<>>
    ELSE IF Head(s) \in Whitespace THEN LStrip(Tail(s)) ELSE s

RECURSIVE RStrip(_)
RStrip(s) ==
    IF s = <<>> THEN <<>>
    ELSE IF s[Len(s)] \in Whitespace THEN RStrip(SubSeq(s, 1, Len(s) - 1)) ELSE s

\* str.strip()
Strip(s) == RStrip(LStrip(s))

\* re.sub(r'\s+', ' ', s): every maximal run of whitespace becomes one space.
RECURSIVE ReSubWhitespace(_)
ReSubWhitespace(s) ==
    IF s = <<>> THEN <<>>
    ELSE IF Head(s) \in Whitespace
         THEN <<" ">> \o ReSubWhitespace(LStrip(s))
         ELSE <<Head(s)>> \o ReSubWhitespace(Tail(s))

\* str.replace(old, new): non-overlapping occurrences, left to right.
RECURSIVE StrReplace(_, _, _)
StrReplace(s, old, new) ==
    IF Len(s) < Len(old) \/ old = <<>> THEN s
    ELSE IF SubSeq(s, 1, Len(old)) = old
         THEN new \o StrReplace(SubSeq(s, Len(old) + 1, Len(s)), old, new)
         ELSE <<Head(s)>> \o StrReplace(Tail(s), old, new)

\* str.split(sep) for a one-character separator.
RECURSIVE StrSplit(_, _)
StrSplit(s, sep) ==
    IF \A p \in 1..Len(s) : s[p] # sep THEN <<s>>
    ELSE LET p == CHOOSE q \in 1..Len(s) :
                      s[q] = sep /\ \A r \in 1..(q - 1) : s[r] # sep
         IN  <<SubSeq(s, 1, p - 1)>> \o StrSplit(SubSeq(s, p + 1, Len(s)), sep)

Digits == <<"0", "1", "2", "3", "4", "5", "6", "7", "8", "9">>

\* str(n) for n >= 0.
RECURSIVE DecStr(_)
DecStr(n) ==
    IF n < 10 THEN <<Digits[n + 1]>>
    ELSE DecStr(n \div 10) \o <<Digits[(n % 10) + 1]>>

\* ref_id = f"ref{i+1}" in highlight_problematic_texts (enumerate index i).
SpanRefId(i) == <<"r", "e", "f">> \o DecStr(i + 1)

\* Variant of AnnotationRefId: numbered from the enumerate index itself.
AnnotationRefIdZeroBased(i) == <<"r", "e", "f">> \o DecStr(i)

\* ref_id = f"ref{i+1}" in _generate_annotations_html (enumerate index i).
AnnotationRefId(i) == <<"r", "e", "f">> \o DecStr(i + 1)

\* dict.get(key, default)
DictGet(d, key, default) == IF key \in DOMAIN d THEN d[key] ELSE default

(***************************************************************************)
(* The regular expression of _find_text_positions.                         *)
(***************************************************************************)
\* Characters re.escape prefixes with a backslash.
ReSpecialChars ==
    {"(", ")", "[", "]", "{", "}", "?", "*", "+", "-", "|", "^", "$", "\\",
     ".", "&", "~", "#", " ", "\t", "\n", "\r"}

\* Variant of ReEscape: the text is used as a pattern unescaped.
ReEscapeNone(s) == s

RECURSIVE ReEscape(_)
ReEscape(s) ==
    IF s = <<>> THEN <<>>
    ELSE (IF Head(s) \in ReSpecialChars THEN <<"\\", Head(s)>> ELSE <<Head(s)>>)
         \o ReEscape(Tail(s))

\* The pattern as the regex compiler reads it: a sequence of items, each a
\* literal character, the class \s or the wildcard of an unescaped dot,
\* possibly repeated by a following +.
RECURSIVE ReParse(_)
ReParse(p) ==
    IF p = <<>> THEN <<>>
    ELSE LET escaped == Head(p) = "\\" /\ Len(p) >= 2
             atomLen == IF escaped THEN 2 ELSE 1
             isWs    == escaped /\ p[2] = "s"
             ch      == IF escaped THEN p[2] ELSE Head(p)
             plus    == Len(p) > atomLen /\ p[atomLen + 1] = "+"
             used    == IF plus THEN atomLen + 1 ELSE atomLen
             isAny   == ~escaped /\ Head(p) = "."
         IN  <<[ws |-> isWs, any |-> isAny, ch |-> ch, plus |-> plus]>>
             \o ReParse(SubSeq(p, used + 1, Len(p)))

\* str.lower on one character of the alphabets used here.
CharLower(c) == IF c = "A" THEN "a" ELSE IF c = "B" THEN "b" ELSE c

\* Variant of ItemAccepts: letters are compared without regard to case.
ItemAcceptsIgnoreCase(item, c) ==
    IF item.ws THEN c \in Whitespace
    ELSE IF item.any THEN c # "\n"
    ELSE CharLower(c) = CharLower(item.ch)

ItemAccepts(item, c) ==
    IF item.ws THEN c \in Whitespace
    ELSE IF item.any THEN c # "\n"
    ELSE c = item.ch

\* Number of consecutive characters of text after offset pos the item accepts.
RECURSIVE RunLength(_, _, _)
RunLength(item, text, pos) ==
    IF pos < Len(text) /\ ItemAccepts(item, text[pos + 1])
    THEN 1 + RunLength(item, text, pos + 1)
    ELSE 0

\* End offset of the match of items[k..] starting at offset pos, or -1.
\* A repeated item is greedy and backtracks from its longest run.
RECURSIVE MatchFrom(_, _, _, _)
RECURSIVE TryPlus(_, _, _, _, _)
MatchFrom(items, k, text, pos) ==
    IF k > Len(items) THEN pos
    ELSE IF items[k].plus
         THEN TryPlus(items, k, text, pos, RunLength(items[k], text, pos))
         ELSE IF pos < Len(text) /\ ItemAccepts(items[k], text[pos + 1])
              THEN MatchFrom(items, k + 1, text, pos + 1)
              ELSE -1

TryPlus(items, k, text, pos, n) ==
    IF n < 1 THEN -1
    ELSE LET r == MatchFrom(items, k + 1, text, pos + n)
         IN  IF r # -1 THEN r ELSE TryPlus(items, k, text, pos, n - 1)

\* Variant of ReFindIter: the search stops at the first match.
RECURSIVE ReFindFirst(_, _, _)
ReFindFirst(items, text, pos) ==
    IF pos > Len(text) THEN <<>>
    ELSE LET e == MatchFrom(items, 1, text, pos)
         IN  IF e = -1 THEN ReFindFirst(items, text, pos + 1) ELSE <<<<pos, e>>>>

\* re.finditer: leftmost matches, each search resuming at the end of the
\* previous match (one further after an empty match).
RECURSIVE ReFindIter(_, _, _)
ReFindIter(items, text, pos) ==
    IF pos > Len(text) THEN <<>>
    ELSE LET e == MatchFrom(items, 1, text, pos)
         IN  IF e = -1 THEN ReFindIter(items, text, pos + 1)
             ELSE <<<<pos, e>>>>
                  \o ReFindIter(items, text, IF e = pos THEN e + 1 ELSE e)

(***************************************************************************)
(* LegalTextAnalyzer                                                       *)
(***************************************************************************)
SEVERITY_COLORS == {"high", "medium", "low"}

\* Variant of _normalize_whitespace: the ends are not trimmed.
NormalizeNoStrip(text) == ReSubWhitespace(text)

_normalize_whitespace(text) == ReSubWhitespace(Strip(text))

\* Variant of NormalizedProblematic: the excerpt is used as given.
RawProblematic(problematic_text) == problematic_text

\* normalized_problematic = self._normalize_whitespace(problematic_text)
NormalizedProblematic(problematic_text) == _normalize_whitespace(problematic_text)

\* Variant of LocatorPattern: the excerpt's spaces are dropped from the pattern.
LocatorPatternNoSpaces(normalized_problematic) ==
    StrReplace(ReEscape(normalized_problematic), <<"\\", " ">>, <<>>)

\* re.escape(normalized_problematic).replace('\\ ', '\\s+')
LocatorPattern(normalized_problematic) ==
    StrReplace(ReEscape(normalized_problematic), <<"\\", " ">>, <<"\\", "s", "+">>)

_find_text_positions(text, problematic_text) ==
    LET normalized_clause      == _normalize_whitespace(text)
        normalized_problematic == NormalizedProblematic(problematic_text)
        pattern                == LocatorPattern(normalized_problematic)
    IN  ReFindIter(ReParse(pattern), normalized_clause, 0)


\* html.escape(text)
RECURSIVE _escape_text(_)
_escape_text(text) ==
    IF text = <<>> THEN <<>>
    ELSE (CASE Head(text) = "&"  -> <<"&", "a", "m", "p", ";">>
            [] Head(text) = "<"  -> <<"&", "l", "t", ";">>
            [] Head(text) = ">"  -> <<"&", "g", "t", ";">>
            [] Head(text) = "\"" -> <<"&", "q", "u", "o", "t", ";">>
            [] Head(text) = "'"  -> <<"&", "#", "x", "2", "7", ";">>
            [] OTHER             -> <<Head(text)>>)
         \o _escape_text(Tail(text))

\* str.lower() on the severity labels the inputs use.
StrLower(s) ==
    CASE s = "HIGH"   -> "high"
      [] s = "High"   -> "high"
      [] s = "MEDIUM" -> "medium"
      [] s = "Medium" -> "medium"
      [] s = "LOW"    -> "low"
      [] s = "Low"    -> "low"
      [] OTHER        -> s

\* severity = segment.get('severity', 'medium').lower(), then the default
\* for a value that is no key of SEVERITY_COLORS.
SegmentSeverity(segment) ==
    LET severity == StrLower(DictGet(segment, "severity", "medium"))
    IN  IF severity \notin SEVERITY_COLORS THEN "medium" ELSE severity

\* A severity that is present in the dict but is no string (None, from a JSON
\* null): the model writes it as this value.
PyNone == "<NoneType>"

\* segment.get('severity', 'medium').lower() raises AttributeError when the
\* value has no method lower.
SeverityRaises(segment) == DictGet(segment, "severity", "medium") = PyNone

AnySeverityRaises(segs) == \E k \in 1..Len(segs) : SeverityRaises(segs[k])

\* A list element that is a plain string, not a dict, is written as the
\* one-field record [str |-> text]; isinstance(segment, str).
IsStr(segment) == "str" \in DOMAIN segment

\* A problematic_text that is a dict, not a string: as a text it is this
\* one-element sequence, which no string equals.
PyDictText == <<"<dict>">>

\* The loop body raises AttributeError: segment.get on a str, text.strip()
\* on a dict, or .lower() on a severity that is no string.
SegmentRaises(segment) ==
    \/ IsStr(segment)
    \/ DictGet(segment, "problematic_text", <<>>) = PyDictText
    \/ SeverityRaises(segment)

AnySegmentRaises(segs) == \E k \in 1..Len(segs) : SegmentRaises(segs[k])

\* Variant of SegmentSpans: the excerpt is located in the clause text as
\* given, so the offsets count the characters of the original text.
SegmentSpansInOriginal(normalized_clause, segment, i) ==
    LET pattern == LocatorPattern(NormalizedProblematic(
                       DictGet(segment, "problematic_text", <<>>)))
        found   == ReFindIter(ReParse(pattern), clause_text, 0)
    IN  [k \in 1..Len(found) |->
            [start |-> found[k][1], end |-> found[k][2],
             ref_id |-> SpanRefId(i), severity |-> SegmentSeverity(segment)]]

\* The spans one problematic segment contributes (enumerate index i).
SegmentSpans(normalized_clause, segment, i) ==
    LET ref_id    == SpanRefId(i)
        found     == _find_text_positions(normalized_clause,
                                          DictGet(segment, "problematic_text", <<>>))
        severity  == SegmentSeverity(segment)
    IN  [k \in 1..Len(found) |->
            [start |-> found[k][1], end |-> found[k][2],
             ref_id |-> ref_id, severity |-> severity]]

\* The list `segments` after the loop over problematic_segments.
RECURSIVE LocateAll(_, _, _)
LocateAll(normalized_clause, segs, n) ==
    IF n = 0 THEN <<>>
    ELSE LocateAll(normalized_clause, segs, n - 1)
         \o SegmentSpans(normalized_clause, segs[n], n - 1)

\* Variant of InsertByStart: a span goes before the spans of equal start.
InsertByStartBeforeTies(sorted, x) ==
    LET k == Cardinality({i \in 1..Len(sorted) : sorted[i].start < x.start})
    IN  SubSeq(sorted, 1, k) \o <<x>> \o SubSeq(sorted, k + 1, Len(sorted))

\* segments.sort(key=lambda x: x['start']): a stable sort.
InsertByStart(sorted, x) ==
    LET k == Cardinality({i \in 1..Len(sorted) : sorted[i].start <= x.start})
    IN  SubSeq(sorted, 1, k) \o <<x>> \o SubSeq(sorted, k + 1, Len(sorted))

RECURSIVE SortByStart(_)
SortByStart(s) ==
    IF s = <<>> THEN <<>>
    ELSE InsertByStart(SortByStart(SubSeq(s, 1, Len(s) - 1)), s[Len(s)])

\* Variant of Overlapping: the span is compared with the region's start.
OverlappingByStart(segment, current) == segment.start <= current.start

\* Variant of Overlapping: a span that only touches the region is kept apart.
OverlappingStrict(segment, current) == segment.start < current.end

\* Variant of Overlapping: a span one character after the region is merged.
OverlappingAcrossGap(segment, current) == segment.start <= current.end + 1

\* The test that merges a span into the current region.
Overlapping(segment, current) == segment.start <= current.end

\* Variant of MergedEnd: the region keeps the end of its first span.
MergedEndFirst(current, segment) == current.end

\* Variant of MergedEnd: the region ends where the merged span ends.
MergedEndLast(current, segment) == segment.end

\* current['end'] = max(current['end'], segment['end'])
MergedEnd(current, segment) ==
    IF current.end >= segment.end THEN current.end ELSE segment.end

\* if segment['ref_id'] not in current['ref_id']: a substring test on the
\* comma-joined string of the region's reference ids.
CombinedRefId(current, segment) ==
    IF ~StrContains(current.ref_id, segment.ref_id)
    THEN current.ref_id \o <<",">> \o segment.ref_id
    ELSE current.ref_id

severities == <<"low", "medium", "high">>

SeverityIndex(s) == CHOOSE i \in 1..Len(severities) : severities[i] = s

\* Variant of MergedSeverity: the span swept last decides.
MergedSeverityLast(current, segment) == segment.severity

\* Variant of MergedSeverity: the region keeps its first span's severity.
MergedSeverityFirst(current, segment) == current.severity

MergedSeverity(current, segment) ==
    IF SeverityIndex(segment.severity) > SeverityIndex(current.severity)
    THEN segment.severity
    ELSE current.severity

\* Variant of MergeSweep: the region still open at the end is not added.
RECURSIVE MergeSweepDropLast(_, _, _)
MergeSweepDropLast(current, rest, merged) ==
    IF rest = <<>> THEN merged
    ELSE LET segment == Head(rest)
         IN  IF Overlapping(segment, current)
             THEN MergeSweepDropLast([start    |-> current.start,
                                      end      |-> MergedEnd(current, segment),
                                      ref_id   |-> CombinedRefId(current, segment),
                                      severity |-> MergedSeverity(current, segment)],
                                     Tail(rest), merged)
             ELSE MergeSweepDropLast(segment, Tail(rest), Append(merged, current))

RECURSIVE MergeSweep(_, _, _)
MergeSweep(current, rest, merged) ==
    IF rest = <<>> THEN Append(merged, current)
    ELSE LET segment == Head(rest)
         IN  IF Overlapping(segment, current)
             THEN MergeSweep([start    |-> current.start,
                              end      |-> MergedEnd(current, segment),
                              ref_id   |-> CombinedRefId(current, segment),
                              severity |-> MergedSeverity(current, segment)],
                             Tail(rest), merged)
             ELSE MergeSweep(segment, Tail(rest), Append(merged, current))

MergeOverlapping(sorted) ==
    IF sorted = <<>> THEN <<>> ELSE MergeSweep(Head(sorted), Tail(sorted), <<>>)

\* The <sup> badges of a region: ref_id[3:] of every id of the split string.
RefBadges(ref_ids) == [k \in 1..Len(ref_ids) |-> Slice(ref_ids[k], 3, Len(ref_ids[k]))]

PlainRun(text) ==
    [kind |-> "plain", html |-> _escape_text(text), severity |-> "",
     data_ref_ids |-> <<>>, onclick |-> <<>>, ref_badges |-> <<>>]

HighlightRun(normalized_clause, segment) ==
    LET ref_ids == StrSplit(segment.ref_id, ",")
    IN  [kind         |-> "highlight",
         html         |-> _escape_text(Slice(normalized_clause, segment.start, segment.end)),
         severity     |-> segment.severity,
         data_ref_ids |-> segment.ref_id,
         onclick      |-> ref_ids[1],
         ref_badges   |-> RefBadges(ref_ids)]

\* Variant of LastEndAfter: the text resumes at the region's start.
LastEndAtStart(segment) == segment.start

\* last_end = segment['end']
LastEndAfter(segment) == segment.end

\* The list `result`: for every merged region the text before it and the
\* highlighted span, then the remaining text.
RECURSIVE BuildResult(_, _, _)
BuildResult(normalized_clause, merged, last_end) ==
    IF merged = <<>>
    THEN <<PlainRun(Slice(normalized_clause, last_end, Len(normalized_clause)))>>
    ELSE LET segment == Head(merged)
         IN  <<PlainRun(Slice(normalized_clause, last_end, segment.start)),
               HighlightRun(normalized_clause, segment)>>
             \o BuildResult(normalized_clause, Tail(merged), LastEndAfter(segment))

\* The entry of the k-th problematic segment (enumerate index k - 1).
AnnotationEntry(segs, k) ==
    [ref_id      |-> AnnotationRefId(k - 1),
     issue       |-> k,
     severity    |-> SegmentSeverity(segs[k]),
     preview     |-> _escape_text(Slice(DictGet(segs[k], "problematic_text", <<>>), 0, 50)),
     explanation |-> _escape_text(DictGet(segs[k], "explanation", <<>>))]

\* Variant of AnnotationEntries: only the segments that were located get an
\* entry.
AnnotationEntriesLocated(segs) ==
    SelectSeq([k \in 1..Len(segs) |-> AnnotationEntry(segs, k)],
              LAMBDA entry : \E j \in 1..Len(segments) :
                                segments[j].ref_id = entry.ref_id)

\* Variant of AnnotationEntries: the entries in reverse order.
AnnotationEntriesReversed(segs) ==
    [k \in 1..Len(segs) |-> AnnotationEntry(segs, Len(segs) + 1 - k)]

\* One entry per problematic segment, in input order.
AnnotationEntries(segs) ==
    [k \in 1..Len(segs) |-> AnnotationEntry(segs, k)]

(***************************************************************************)
(* Operations.                                                             *)
(***************************************************************************)
\* LegalTextAnalyzer._find_text_positions on the clause and the first segment.
FindTextPositions ==
    /\ pc = "ready"
    /\ Len(problematic_segments) >= 1
    /\ positions' = _find_text_positions(
                        clause_text,
                        DictGet(problematic_segments[1], "problematic_text", <<>>))
    /\ pc' = "located"
    /\ UNCHANGED <<clause_text, problematic_segments, segments, merged_segments,
                   result, annotations, normalized, dom, session>>

\* LegalTextAnalyzer._normalize_whitespace, called on the clause text and
\* then on its own result; `normalized` lists the values returned.
NormalizeWhitespace ==
    /\ pc = "ready"
    /\ Len(normalized) < NormCalls
    /\ normalized' = Append(normalized,
                            _normalize_whitespace(IF normalized = <<>>
                                                  THEN clause_text
                                                  ELSE normalized[Len(normalized)]))
    /\ UNCHANGED <<clause_text, problematic_segments, pc, positions, segments,
                   merged_segments, result, annotations, dom, session>>

\* LegalTextAnalyzer.highlight_problematic_texts
HighlightProblematicTexts ==
    /\ pc = "ready"
    /\ IF AnySegmentRaises(problematic_segments)
       THEN \* the exception leaves the loop: nothing is returned
            /\ pc' = "error"
            /\ UNCHANGED <<segments, merged_segments, result>>
       ELSE LET normalized_clause == _normalize_whitespace(clause_text)
                located == LocateAll(normalized_clause, problematic_segments,
                                     Len(problematic_segments))
                merged  == MergeOverlapping(SortByStart(located))
            IN  /\ segments' = located
                /\ merged_segments' = merged
                /\ result' = BuildResult(normalized_clause, merged, 0)
                /\ pc' = "highlighted"
    /\ UNCHANGED <<clause_text, problematic_segments, positions, annotations,
                   normalized, dom, session>>

\* LegalTextAnalyzer._generate_annotations_html, called by
\* annotate_clause_risks after the highlighting.
GenerateAnnotationsHtml ==
    /\ pc = "highlighted"
    /\ IF AnySegmentRaises(problematic_segments)
       THEN pc' = "error" /\ UNCHANGED annotations
       ELSE /\ annotations' = AnnotationEntries(problematic_segments)
            /\ pc' = "annotated"
    /\ UNCHANGED <<clause_text, problematic_segments, positions, segments,
                   merged_segments, result, normalized, dom, session>>

\* Variant of ConvertSegments: the list is passed on as given.
ConvertSegmentsNever(segs) == segs

\* The module-level wrappers: a list whose first element is a plain string
\* is rewritten into dicts, every element becoming the problematic_text and
\* the explanation of its dict.
ConvertSegments(segs) ==
    IF segs # <<>> /\ IsStr(segs[1])
    THEN [k \in 1..Len(segs) |->
            LET text == IF IsStr(segs[k]) THEN segs[k].str ELSE PyDictText
            IN  [problematic_text |-> text, explanation |-> text,
                 severity |-> "medium"]]
    ELSE segs

\* The module-level function highlight_problematic_texts.
WrapperHighlightProblematicTexts ==
    /\ pc = "ready"
    /\ LET converted == ConvertSegments(problematic_segments)
       IN  IF AnySegmentRaises(converted)
           THEN /\ pc' = "error"
                /\ UNCHANGED <<segments, merged_segments, result>>
           ELSE LET normalized_clause == _normalize_whitespace(clause_text)
                    located == LocateAll(normalized_clause, converted, Len(converted))
                    merged  == MergeOverlapping(SortByStart(located))
                IN  /\ segments' = located
                    /\ merged_segments' = merged
                    /\ result' = BuildResult(normalized_clause, merged, 0)
                    /\ pc' = "highlighted"
    /\ UNCHANGED <<clause_text, problematic_segments, positions, annotations,
                   normalized, dom, session>>

\* The rendered page: `active` holds the highlighted runs (indices of
\* result) of class active, `hidden` the ref ids of the annotations whose body
\* is not displayed, scroll_annotation and scroll_highlight the element last
\* scrolled into view (none: <<>> and 0). handler, arg and clicked record
\* the last handler called, its argument refId and the clicked element (the
\* number of the annotation or the index of the highlighted run).
\* querySelectorAll('.highlight[data-ref-ids*="refId"]'): the attribute
\* contains refId as a substring.
HighlightsMatching(refId) ==
    {i \in 1..Len(result) :
        result[i].kind = "highlight" /\ StrContains(result[i].data_ref_ids, refId)}

\* getElementById('annotation-' + refId) finds an element.
AnnotationExists(refId) ==
    \E k \in 1..Len(annotations) : annotations[k].ref_id = refId

\* toggleAnnotation(refId), once its timers have run.
ToggleAnnotation(hidden, refId) ==
    IF ~AnnotationExists(refId) THEN hidden
    ELSE IF refId \in hidden THEN hidden \ {refId} ELSE hidden \cup {refId}

\* annotationClick(refId): the onclick of the title of annotation k.
AnnotationClick ==
    /\ pc = "annotated"
    /\ dom.clicks < MaxClicks
    /\ \E k \in 1..Len(annotations) :
          LET refId      == annotations[k].ref_id
              highlights == HighlightsMatching(refId)
          IN  dom' = [active            |-> highlights,
                      hidden            |-> ToggleAnnotation(dom.hidden, refId),
                      scroll_annotation |-> IF highlights # {} THEN <<>>
                                            ELSE dom.scroll_annotation,
                      scroll_highlight  |-> IF highlights # {}
                                            THEN CHOOSE i \in highlights :
                                                     \A j \in highlights : i <= j
                                            ELSE dom.scroll_highlight,
                      clicks            |-> dom.clicks + 1,
                      handler           |-> "annotationClick",
                      arg               |-> refId,
                      clicked           |-> k]
    /\ UNCHANGED <<clause_text, problematic_segments, pc, positions, segments,
                   merged_segments, result, annotations, normalized, session>>

\* Variant of ClickTarget: the last id of the region.
ClickTargetLast(run) ==
    StrSplit(run.data_ref_ids, ",")[Len(StrSplit(run.data_ref_ids, ","))]

\* The argument of the onclick attribute of a highlighted run: ref_ids[0].
ClickTarget(run) == run.onclick

\* highlightClick(refId): the onclick of the highlighted run i.
HighlightClick ==
    /\ pc = "annotated"
    /\ dom.clicks < MaxClicks
    /\ \E i \in 1..Len(result) :
          /\ result[i].kind = "highlight"
          /\ LET refId == ClickTarget(result[i])
                 found == AnnotationExists(refId)
             IN  dom' = [active            |-> HighlightsMatching(refId),
                         hidden            |-> IF found THEN dom.hidden \ {refId}
                                               ELSE dom.hidden,
                         scroll_annotation |-> IF found THEN refId
                                               ELSE dom.scroll_annotation,
                         scroll_highlight  |-> IF found THEN 0
                                               ELSE dom.scroll_highlight,
                         clicks            |-> dom.clicks + 1,
                         handler           |-> "highlightClick",
                         arg               |-> refId,
                         clicked           |-> i]
    /\ UNCHANGED <<clause_text, problematic_segments, pc, positions, segments,
                   merged_segments, result, annotations, normalized, session>>

Severities == {"low", "medium", "high"}

SegmentRecords(alphabet, maxLen) ==
    [problematic_text : SeqsUpTo(alphabet, maxLen), severity : Severities]

\* Variant of ClauseButtons: a page whose clause failed has no buttons.
ClauseButtonsUnlessError(clauses, page) ==
    IF page = "error" THEN {} ELSE 1..Len(clauses)

\* The clause buttons of the navigation column: one st.button per clause,
\* created before the clause itself is rendered, whatever becomes of it.
ClauseButtons(clauses, page) == 1..Len(clauses)

\* What one script run shows of a clause: its text alone when it has no
\* detailed risks, else the component of annotate_clause_risks, or the
\* exception that call raised.
ClausePage(clause) ==
    IF clause.detailed_risks = <<>> THEN "plain"
    ELSE IF AnySegmentRaises(ConvertSegments(clause.detailed_risks)) THEN "error"
    ELSE "annotated"

\* display_detailed_analysis: one script run, which renders the navigation
\* and then the current clause through the wrapper annotate_clause_risks
\* (conversion, highlighting, annotations, st.components.v1.html).
DisplayDetailedAnalysis ==
    /\ session.page = "none"
    /\ session.clauses # <<>>
    /\ LET clause    == session.clauses[session.current]
           page      == ClausePage(clause)
           converted == ConvertSegments(clause.detailed_risks)
           normalized_clause == _normalize_whitespace(clause.text)
           located   == LocateAll(normalized_clause, converted, Len(converted))
           merged    == MergeOverlapping(SortByStart(located))
       IN  /\ clause_text' = clause.text
           /\ problematic_segments' = clause.detailed_risks
           /\ session' = [session EXCEPT
                              !.page = page,
                              !.buttons = ClauseButtons(session.clauses, page),
                              !.failed = IF page = "error"
                                         THEN session.failed \cup {session.current}
                                         ELSE session.failed]
           /\ IF page = "annotated"
              THEN /\ segments' = located
                   /\ merged_segments' = merged
                   /\ result' = BuildResult(normalized_clause, merged, 0)
                   /\ annotations' = AnnotationEntries(converted)
                   /\ pc' = "annotated"
              ELSE /\ UNCHANGED <<segments, merged_segments, result, annotations>>
                   /\ pc' = IF page = "error" THEN "error" ELSE "ready"
    /\ UNCHANGED <<positions, normalized, dom>>

\* A click on a clause button (or on Previous/Next, which select a
\* neighbour): current_clause is set and st.rerun() starts a new run on an
\* empty page.
SelectClause ==
    /\ session.page # "none"
    /\ \E c \in session.buttons :
          session' = [session EXCEPT !.current = c, !.page = "none", !.buttons = {}]
    /\ pc' = "ready"
    /\ clause_text' = <<>>
    /\ problematic_segments' = <<>>
    /\ segments' = <<>>
    /\ merged_segments' = <<>>
    /\ result' = <<>>
    /\ annotations' = <<>>
    /\ UNCHANGED <<positions, normalized, dom>>

\* No page of the detailed analysis has been requested.
NoSession ==
    [clauses |-> <<>>, current |-> 0, page |-> "none", buttons |-> {},
     failed |-> {}]

Outputs0 ==
    /\ pc = "ready"
    /\ positions = <<>>
    /\ segments = <<>>
    /\ merged_segments = <<>>
    /\ result = <<>>
    /\ annotations = <<>>
    /\ normalized = <<>>
    /\ dom = [active |-> {}, hidden |-> {}, scroll_annotation |-> <<>>,
              scroll_highlight |-> 0, clicks |-> 0,
              handler |-> "", arg |-> <<>>, clicked |-> 0]
    /\ session = NoSession

\* One clause and its list of problematic segments.
Init ==
    /\ clause_text \in SeqsUpTo(Alphabet, MaxTextLen)
    /\ problematic_segments \in SeqsUpTo(SegmentRecords(Alphabet, MaxExLen), MaxSegs)
    /\ Outputs0

Next == HighlightProblematicTexts \/ GenerateAnnotationsHtml

Spec == Init /\ [][Next]_vars

\* The locator alone, on one text and one excerpt.
LocInit ==
    /\ clause_text \in SeqsUpTo(LocAlphabet, LocTextLen)
    /\ problematic_segments \in
           [1..1 -> [problematic_text : SeqsUpTo(LocAlphabet, LocExLen),
                     severity : {"medium"}]]
    /\ Outputs0

LocNext == FindTextPositions

SpecLocate == LocInit /\ [][LocNext]_vars

\* Clauses and excerpts with letters of both cases and with characters that
\* are pattern syntax.
LitInit ==
    /\ clause_text \in SeqsUpTo(LitAlphabet, LitTextLen)
    /\ problematic_segments \in
           [1..1 -> [problematic_text : SeqsUpTo(LitAlphabet, LitExLen),
                     severity : {"medium"}]]
    /\ Outputs0

SpecLiteral == LitInit /\ [][LocNext]_vars

\* Raw texts with runs of spaces, tabs and newlines.
NormInit ==
    /\ clause_text \in SeqsUpTo(NormAlphabet, NormTextLen)
    /\ problematic_segments = <<>>
    /\ Outputs0

NormNext == NormalizeWhitespace

SpecNormalize == NormInit /\ [][NormNext]_vars

\* Clauses with ten and more problematic segments.
ManyInit ==
    /\ clause_text \in SeqsUpTo(ManyAlphabet, ManyTextLen)
    /\ problematic_segments \in
           UNION {[1..k -> [problematic_text : [1..1 -> ManyAlphabet],
                            severity : {"medium"}]] : k \in 1..MaxManySegs}
    /\ Outputs0

SpecMany == ManyInit /\ [][Next]_vars

\* The page of annotate_clause_risks and the clicks on it.
ClickNext == Next \/ AnnotationClick \/ HighlightClick

SpecManyClicks == ManyInit /\ [][ClickNext]_vars

\* The dicts with the given key absent or bound to one of the values.
OptionalKey(key, values) ==
    {[k \in {} |-> k]} \cup {[k \in {key} |-> v] : v \in values}

\* Loosely typed segments, as json.loads hands them over: problematic_text
\* and severity may be absent, severity may be any string or None.
LooseSeverities == {"high", "High", "critical", PyNone}

LooseSegmentRecords ==
    {[explanation |-> e] @@ t @@ v :
        e \in {<<"x">>, <<"<">>},
        t \in OptionalKey("problematic_text", SeqsUpTo(ManyAlphabet, RecExLen)),
        v \in OptionalKey("severity", LooseSeverities)}

RecInit ==
    /\ clause_text \in SeqsUpTo(ManyAlphabet, RecTextLen)
    /\ problematic_segments \in SeqsUpTo(LooseSegmentRecords, RecSegs)
    /\ Outputs0

SpecRecords == RecInit /\ [][Next]_vars

SpecClicks == RecInit /\ [][ClickNext]_vars

\* The clauses of an analysed contract, the first one being current.
\* Every clause is one character and has no risk or one.
SessSegmentRecords ==
    {[str |-> <<c>>] : c \in ManyAlphabet}
    \cup {[problematic_text |-> <<c>>, explanation |-> <<"x">>, severity |-> v] :
            c \in ManyAlphabet, v \in {"high", PyNone}}

SessClauseRecords ==
    [text : {<<c>> : c \in ManyAlphabet},
     detailed_risks : {<<>>} \cup {<<r>> : r \in SessSegmentRecords}]

SessInit ==
    /\ clause_text = <<>>
    /\ problematic_segments = <<>>
    /\ pc = "ready"
    /\ positions = <<>>
    /\ segments = <<>>
    /\ merged_segments = <<>>
    /\ result = <<>>
    /\ annotations = <<>>
    /\ normalized = <<>>
    /\ dom = [active |-> {}, hidden |-> {}, scroll_annotation |-> <<>>,
              scroll_highlight |-> 0, clicks |-> 0,
              handler |-> "", arg |-> <<>>, clicked |-> 0]
    /\ \E clauses \in SeqsUpTo(SessClauseRecords, SessClauses) \ {<<>>} :
          session = [clauses |-> clauses, current |-> 1, page |-> "none",
                     buttons |-> {}, failed |-> {}]

SessNext == DisplayDetailedAnalysis \/ SelectClause

SpecSession == SessInit /\ [][SessNext]_vars

\* Lists of plain strings, of dicts, and of both.
PlainStrings == {[str |-> t] : t \in SeqsUpTo(ManyAlphabet, RecExLen)}

WrapperInit ==
    /\ clause_text \in SeqsUpTo(ManyAlphabet, RecTextLen)
    /\ problematic_segments \in
           SeqsUpTo(PlainStrings \cup LooseSegmentRecords, RecSegs)
    /\ Outputs0

WrapperNext == WrapperHighlightProblematicTexts

SpecWrapper == WrapperInit /\ [][WrapperNext]_vars

(***************************************************************************)
(* Properties.                                                             *)
(***************************************************************************)
Highlighted == pc \in {"highlighted", "annotated"}

NormalizedClause == _normalize_whitespace(clause_text)

RECURSIVE ConcatHtml(_)
ConcatHtml(runs) ==
    IF runs = <<>> THEN <<>> ELSE Head(runs).html \o ConcatHtml(Tail(runs))

HighlightRuns == {k \in 1..Len(result) : result[k].kind = "highlight"}

\* The ids a region carries: its comma-joined string, split.
RegionRefIds(region) == StrSplit(region.ref_id, ",")

\* The located spans lying inside a region: regions are separated by gaps,
\* so these are the spans the sweep merged into it.
Contributing(region) ==
    {k \in 1..Len(segments) :
        region.start <= segments[k].start /\ segments[k].end <= region.end}

\* Every located span has at least one character.
SpansNonEmpty == \A k \in 1..Len(segments) : segments[k].start < segments[k].end

MaxOf(S) == CHOOSE m \in S : \A x \in S : x <= m

\* C1: the plain and highlighted runs of the rendering, concatenated in
\* order, are the whitespace-normalized clause text (as escaped for HTML):
\* every character once, none lost, none duplicated.
C1_Coverage ==
    Highlighted => ConcatHtml(result) = _escape_text(NormalizedClause)

C1_Witness ==
    /\ pc = "highlighted"
    /\ SpansNonEmpty
    /\ Cardinality({k \in HighlightRuns : result[k].html # <<>>}) >= 2
    /\ \E k \in 1..Len(result) : result[k].kind = "plain" /\ result[k].html # <<>>

\* C2: after the merge the regions are ordered by start and do not overlap:
\* each region ends at or before the start of the next.
C2_NonOverlap ==
    Highlighted =>
        \A i \in 1..(Len(merged_segments) - 1) :
            /\ merged_segments[i].start <= merged_segments[i + 1].start
            /\ merged_segments[i].end <= merged_segments[i + 1].start

\* Two regions, one of them merged from the spans of two segments.
C2_Witness ==
    /\ pc = "highlighted"
    /\ SpansNonEmpty
    /\ Len(merged_segments) >= 2
    /\ \E i \in 1..Len(merged_segments) :
          Len(RegionRefIds(merged_segments[i])) >= 2

\* C3: the severity of a merged region is the maximum severity
\* (low < medium < high) of the spans merged into it.
C3_SeverityMax ==
    Highlighted =>
        \A i \in 1..Len(merged_segments) :
            SeverityIndex(merged_segments[i].severity) =
                MaxOf({SeverityIndex(segments[k].severity) :
                          k \in Contributing(merged_segments[i])})

\* A region whose earliest span is more severe than a span merged later.
C3_Witness ==
    /\ pc = "highlighted"
    /\ SpansNonEmpty
    /\ \E i \in 1..Len(merged_segments) :
          \E j, k \in Contributing(merged_segments[i]) :
              /\ segments[j].start < segments[k].start
              /\ SeverityIndex(segments[j].severity) > SeverityIndex(segments[k].severity)

\* C4: there is one annotation entry per input segment, and every ref_id a
\* region carries is the ref_id of exactly one annotation entry.
C4_AnnotationComplete ==
    pc = "annotated" =>
        /\ Len(annotations) = Len(problematic_segments)
        /\ \A i \in 1..Len(merged_segments) :
              LET ids == RegionRefIds(merged_segments[i])
              IN  \A j \in 1..Len(ids) :
                      Cardinality({k \in 1..Len(annotations) :
                                      annotations[k].ref_id = ids[j]}) = 1

C4_Witness ==
    /\ pc = "annotated"
    /\ SpansNonEmpty
    /\ Len(annotations) = 2
    /\ \E i \in 1..Len(merged_segments) : Len(RegionRefIds(merged_segments[i])) = 2

\* C5: the ids of a region are exactly the ref_ids of the segments with a
\* span merged into it, each once.
C5_RefIdsExact ==
    Highlighted =>
        \A i \in 1..Len(merged_segments) :
            LET ids == RegionRefIds(merged_segments[i])
            IN  /\ {ids[j] : j \in 1..Len(ids)} =
                       {segments[k].ref_id : k \in Contributing(merged_segments[i])}
                /\ \A j1, j2 \in 1..Len(ids) : ids[j1] = ids[j2] => j1 = j2

\* The excerpt handed to the locator, and both texts normalized.
Excerpt == DictGet(problematic_segments[1], "problematic_text", <<>>)

NormalizedExcerpt == _normalize_whitespace(Excerpt)

\* C6: an excerpt that is a substring of the text once whitespace runs are
\* collapsed (and the ends trimmed) is matched at least once.
C6_WhitespaceTolerance ==
    (pc = "located" /\ StrContains(NormalizedClause, NormalizedExcerpt))
        => Len(positions) >= 1

\* The excerpt and the text differ in their whitespace, and the excerpt as
\* given is no substring of the text as given.
C6_Witness ==
    /\ pc = "located"
    /\ Excerpt # NormalizedExcerpt
    /\ \E k \in 1..Len(NormalizedExcerpt) : NormalizedExcerpt[k] = " "
    /\ Len(NormalizedClause) < Len(clause_text)
    /\ ~StrContains(clause_text, Excerpt)
    /\ StrContains(NormalizedClause, NormalizedExcerpt)
    /\ Len(positions) >= 1

\* The words of a normalized string.
Words(s) == IF s = <<>> THEN <<>> ELSE StrSplit(s, " ")

\* The sequence e occurs in t as a run of consecutive elements.
OccursIn(e, t) ==
    \E o \in 0..(Len(t) - Len(e)) : \A j \in 1..Len(e) : t[o + j] = e[j]

\* C7 as stated: an excerpt whose words are no run of consecutive words of
\* the normalized text has no match.
C7_NoWordMatch ==
    (pc = "located" /\ ~OccursIn(Words(NormalizedExcerpt), Words(NormalizedClause)))
        => positions = <<>>

\* C7: an excerpt whose normalization is no substring (character by
\* character) of the normalized text has no match.
C7_NoFalsePositives ==
    (pc = "located" /\ ~StrContains(NormalizedClause, NormalizedExcerpt))
        => positions = <<>>

\* Two words that both appear in the text, but not next to each other in
\* this order.
C7_Witness ==
    /\ pc = "located"
    /\ Len(Words(NormalizedExcerpt)) >= 2
    /\ \A k \in 1..Len(NormalizedExcerpt) :
          \E j \in 1..Len(NormalizedClause) : NormalizedClause[j] = NormalizedExcerpt[k]
    /\ ~StrContains(NormalizedClause, NormalizedExcerpt)
    /\ positions = <<>>

\* The spans and regions of the k-th problematic segment.
SpansOf(k) == {j \in 1..Len(segments) : segments[j].ref_id = SpanRefId(k - 1)}

RegionsOf(k) ==
    {i \in 1..Len(merged_segments) :
        \E j \in 1..Len(RegionRefIds(merged_segments[i])) :
            RegionRefIds(merged_segments[i])[j] = SpanRefId(k - 1)}

NormalizedText(k) ==
    _normalize_whitespace(DictGet(problematic_segments[k], "problematic_text", <<>>))

\* C8: a segment whose problematic_text is empty or only whitespace
\* contributes no span and no highlighted region.
C8_EmptyExcerptNoMatch ==
    Highlighted =>
        \A k \in 1..Len(problematic_segments) :
            NormalizedText(k) = <<>> => SpansOf(k) = {} /\ RegionsOf(k) = {}

\* C9: every located span satisfies 0 <= start < end <= len(normalized_text).
C9_SpanBounds ==
    Highlighted =>
        \A j \in 1..Len(segments) :
            /\ 0 <= segments[j].start
            /\ segments[j].start < segments[j].end
            /\ segments[j].end <= Len(NormalizedClause)

\* Offsets p at which the k-th segment's normalized excerpt occurs in the
\* normalized clause.
Occurrences(k) ==
    {p \in 0..(Len(NormalizedClause) - Len(NormalizedText(k))) :
        Slice(NormalizedClause, p, p + Len(NormalizedText(k))) = NormalizedText(k)}

InSomeRegion(c) ==
    \E i \in 1..Len(merged_segments) :
        merged_segments[i].start <= c /\ c < merged_segments[i].end

\* C10 as stated: every character of every occurrence of every excerpt,
\* overlapping occurrences included, is inside a highlighted region.
C10_EveryOccurrence ==
    Highlighted =>
        \A k \in 1..Len(problematic_segments) :
            \A p \in Occurrences(k) :
                \A c \in p..(p + Len(NormalizedText(k)) - 1) : InSomeRegion(c)

\* C10: every occurrence of an excerpt lies inside one highlighted region,
\* unless it starts inside an earlier located occurrence of the same excerpt.
C10_OccurrencesLocated ==
    Highlighted =>
        \A k \in 1..Len(problematic_segments) :
            \A p \in Occurrences(k) :
                \/ \E i \in 1..Len(merged_segments) :
                      /\ merged_segments[i].start <= p
                      /\ p + Len(NormalizedText(k)) <= merged_segments[i].end
                \/ \E j \in SpansOf(k) :
                      segments[j].start < p /\ p < segments[j].end

\* An excerpt located once, with a second occurrence that starts inside the
\* first and reaches past every region.
C10_Witness ==
    /\ pc = "highlighted"
    /\ SpansNonEmpty
    /\ \E k \in 1..Len(problematic_segments) :
          \E p, q \in Occurrences(k) :
              /\ p < q
              /\ q < p + Len(NormalizedText(k))
              /\ \E j \in SpansOf(k) : segments[j].start = p
              /\ ~InSomeRegion(q + Len(NormalizedText(k)) - 1)

\* The regions a span lies inside.
RegionsAround(j) ==
    {i \in 1..Len(merged_segments) :
        /\ merged_segments[i].start <= segments[j].start
        /\ segments[j].end <= merged_segments[i].end}

\* C11: after the merge every located span lies inside exactly one region.
C11_SpanInOneRegion ==
    Highlighted => \A j \in 1..Len(segments) : Cardinality(RegionsAround(j)) = 1

\* A span shorter than the region around it.
C11_Witness ==
    /\ pc = "highlighted"
    /\ SpansNonEmpty
    /\ \E j \in 1..Len(segments) : \E i \in RegionsAround(j) :
          merged_segments[i].end - merged_segments[i].start
              > segments[j].end - segments[j].start

\* C12: the merge is idempotent: sorting and sweeping the merged regions
\* again gives the same regions, ref_ids and severities.
C12_MergeIdempotent ==
    Highlighted =>
        MergeOverlapping(SortByStart(merged_segments)) = merged_segments

\* Two regions, one of them with the combined ids of two segments.
C12_Witness ==
    /\ pc = "highlighted"
    /\ SpansNonEmpty
    /\ Len(merged_segments) >= 2
    /\ Len(segments) > Len(merged_segments)
    /\ \E i \in 1..Len(merged_segments) :
          Len(RegionRefIds(merged_segments[i])) >= 2

\* C13: spans that touch are in the same region, and consecutive regions
\* are separated by at least one character that is not highlighted.
C13_RegionsMaximal ==
    Highlighted =>
        /\ \A j, k \in 1..Len(segments) :
              segments[j].end = segments[k].start
                  => RegionsAround(j) \cap RegionsAround(k) # {}
        /\ \A i \in 1..(Len(merged_segments) - 1) :
              merged_segments[i].end < merged_segments[i + 1].start

\* Spans of two segments that touch without overlapping, in one region.
C13_Witness ==
    /\ pc = "highlighted"
    /\ SpansNonEmpty
    /\ \E j, k \in 1..Len(segments) :
          /\ segments[j].end = segments[k].start
          /\ segments[j].ref_id # segments[k].ref_id
          /\ \E i \in RegionsAround(j) \cap RegionsAround(k) :
                /\ merged_segments[i].start = segments[j].start
                /\ merged_segments[i].end = segments[k].end

\* Two segments, the first of severity low and the second of severity high,
\* each located once, the two spans sharing exactly one character.
LowHighOverlapByOne ==
    /\ Highlighted
    /\ Len(problematic_segments) = 2
    /\ DictGet(problematic_segments[1], "severity", "medium") = "low"
    /\ DictGet(problematic_segments[2], "severity", "medium") = "high"
    /\ Len(segments) = 2
    /\ segments[1].ref_id = SpanRefId(0)
    /\ segments[2].ref_id = SpanRefId(1)
    /\ LET lo == IF segments[1].start >= segments[2].start
                 THEN segments[1].start ELSE segments[2].start
           hi == IF segments[1].end <= segments[2].end
                 THEN segments[1].end ELSE segments[2].end
       IN  hi - lo = 1

\* C18 as stated: the result is one region of severity high whose ids are
\* segment 1 then segment 2.
C18_RefsInInputOrder ==
    LowHighOverlapByOne =>
        /\ Len(merged_segments) = 1
        /\ merged_segments[1].severity = "high"
        /\ RegionRefIds(merged_segments[1]) = <<SpanRefId(0), SpanRefId(1)>>

\* C18: the result is one region of severity high whose ids are the two
\* segments in the order in which their spans start (segment 1 first when
\* both start at the same offset).
C18_RefsInStartOrder ==
    LowHighOverlapByOne =>
        /\ Len(merged_segments) = 1
        /\ merged_segments[1].severity = "high"
        /\ RegionRefIds(merged_segments[1]) =
               IF segments[1].start <= segments[2].start
               THEN <<SpanRefId(0), SpanRefId(1)>>
               ELSE <<SpanRefId(1), SpanRefId(0)>>

\* The span of the second segment starts before the span of the first.
C18_Witness ==
    /\ LowHighOverlapByOne
    /\ pc = "highlighted"
    /\ segments[2].start < segments[1].start

\* The k-th segment has no severity key, or a value that is none of the
\* three severity levels in any letter case.
SeverityUnrecognized(k) ==
    \/ "severity" \notin DOMAIN problematic_segments[k]
    \/ StrLower(problematic_segments[k]["severity"]) \notin SEVERITY_COLORS

\* C14: a segment whose severity is missing or is any value other than
\* high/medium/low (in any letter case) raises no error and has severity
\* medium, on each of its spans and on its annotation entry.
C14_SeverityDefault ==
    \A k \in 1..Len(problematic_segments) :
        SeverityUnrecognized(k) =>
            /\ pc # "error"
            /\ Highlighted =>
                   \A j \in SpansOf(k) : segments[j].severity = "medium"
            /\ pc = "annotated" => annotations[k].severity = "medium"

\* C15: a segment without the problematic_text key is rejected: the engine
\* ends in the error condition and produces no rendering and no annotations.
C15_MissingKeyRejected ==
    (/\ pc # "ready"
     /\ \E k \in 1..Len(problematic_segments) :
           "problematic_text" \notin DOMAIN problematic_segments[k])
        => pc = "error" /\ result = <<>> /\ annotations = <<>>

\* The excerpt of the k-th segment is not empty and occurs nowhere in the
\* normalized clause.
NotFound(k) == ~StrContains(NormalizedClause, NormalizedText(k))

\* C16: a segment whose excerpt is found nowhere has no span and is listed
\* by no region, yet has its annotation entry with its explanation; the
\* other segments keep their spans, each inside a region, and the unfound
\* excerpt is no cause of an error.
C16_UnmatchedKeepsAnnotation ==
    \A k \in 1..Len(problematic_segments) :
        NotFound(k) =>
            /\ Highlighted =>
                   /\ SpansOf(k) = {} /\ RegionsOf(k) = {}
                   /\ \A m \in 1..Len(problematic_segments) :
                         ~NotFound(m) =>
                             /\ SpansOf(m) # {}
                             /\ \A j \in SpansOf(m) : RegionsAround(j) # {}
            /\ pc = "annotated" =>
                   /\ Len(annotations) = Len(problematic_segments)
                   /\ annotations[k].ref_id = SpanRefId(k - 1)
                   /\ annotations[k].explanation =
                          _escape_text(DictGet(problematic_segments[k], "explanation", <<>>))
            /\ pc = "error" => AnySeverityRaises(problematic_segments)

\* The first segment is found nowhere, the second is highlighted.
C16_Witness ==
    /\ pc = "annotated"
    /\ Len(problematic_segments) = 2
    /\ NotFound(1)
    /\ annotations[1].explanation # <<>>
    /\ SpansNonEmpty
    /\ SpansOf(2) # {} /\ RegionsOf(2) # {}

\* C17: entry k of the annotations is that of input segment k (its ref_id,
\* its issue number, its excerpt and its explanation), wherever and whether
\* the segments were located and however their spans were merged.
C17_AnnotationInputOrder ==
    pc = "annotated" =>
        /\ Len(annotations) = Len(problematic_segments)
        /\ \A k \in 1..Len(problematic_segments) :
              /\ annotations[k].ref_id = <<"r", "e", "f">> \o DecStr(k)
              /\ annotations[k].issue = k
              /\ annotations[k].preview =
                     _escape_text(DictGet(problematic_segments[k], "problematic_text", <<>>))
              /\ annotations[k].explanation =
                     _escape_text(DictGet(problematic_segments[k], "explanation", <<>>))

\* The second segment lies before the first in the text, both merged into
\* one region, and the two entries differ.
C17_Witness ==
    /\ pc = "annotated"
    /\ Len(problematic_segments) = 2
    /\ SpansNonEmpty
    /\ \E i \in SpansOf(1), j \in SpansOf(2) : segments[j].start < segments[i].start
    /\ Len(merged_segments) = 1
    /\ annotations[1].preview # annotations[2].preview
    /\ annotations[1].explanation # annotations[2].explanation

\* str.lower
LowerStr(s) == [i \in 1..Len(s) |-> CharLower(s[i])]

\* C19: an excerpt that occurs in the clause only when letter case is
\* disregarded has no match.
C19_CaseSensitive ==
    (/\ pc = "located"
     /\ StrContains(LowerStr(NormalizedClause), LowerStr(NormalizedExcerpt))
     /\ ~StrContains(NormalizedClause, NormalizedExcerpt))
        => positions = <<>>

\* Excerpt and clause are the same text up to the case of a letter.
C19_Witness ==
    /\ pc = "located"
    /\ NormalizedExcerpt # NormalizedClause
    /\ LowerStr(NormalizedExcerpt) = LowerStr(NormalizedClause)
    /\ Len(NormalizedExcerpt) >= 2
    /\ positions = <<>>

\* C20: the excerpt is matched literally: it has a match exactly when it
\* occurs in the normalized clause, and the text of every match is the
\* normalized excerpt, character by character, whichever pattern
\* metacharacters it contains.
C20_LiteralMatch ==
    pc = "located" =>
        /\ StrContains(NormalizedClause, NormalizedExcerpt) <=> positions # <<>>
        /\ \A i \in 1..Len(positions) :
              Slice(NormalizedClause, positions[i][1], positions[i][2]) = NormalizedExcerpt

\* A located excerpt holding a backslash directly followed by a space, and a
\* dot.
C20_Witness ==
    /\ pc = "located"
    /\ positions # <<>>
    /\ \E i \in 1..(Len(NormalizedExcerpt) - 1) :
          NormalizedExcerpt[i] = "\\" /\ NormalizedExcerpt[i + 1] = " "
    /\ \E i \in 1..Len(NormalizedExcerpt) : NormalizedExcerpt[i] = "."

\* text.split(): the maximal runs of characters that are no whitespace.
RECURSIVE SplitWhitespace(_)
SplitWhitespace(s) ==
    LET t == LStrip(s)
        n == IF \E p \in 1..Len(t) : t[p] \in Whitespace
             THEN (CHOOSE p \in 1..Len(t) :
                      t[p] \in Whitespace /\ \A r \in 1..(p - 1) : t[r] \notin Whitespace) - 1
             ELSE Len(t)
    IN  IF t = <<>> THEN <<>>
        ELSE <<SubSeq(t, 1, n)>> \o SplitWhitespace(SubSeq(t, n + 1, Len(t)))

\* " ".join(words)
RECURSIVE JoinSpace(_)
JoinSpace(words) ==
    IF words = <<>> THEN <<>>
    ELSE IF Len(words) = 1 THEN words[1]
    ELSE words[1] \o <<" ">> \o JoinSpace(Tail(words))

\* No two adjacent whitespace characters, none at either end.
WhitespaceNormal(s) ==
    /\ s # <<>> => s[1] \notin Whitespace /\ s[Len(s)] \notin Whitespace
    /\ \A p \in 1..(Len(s) - 1) : ~(s[p] \in Whitespace /\ s[p + 1] \in Whitespace)

\* C21: the normalizer returns the words of the text joined by single
\* spaces (the empty text for a text without words), its result has no
\* adjacent, leading or trailing whitespace, and normalizing the result
\* again returns it unchanged.
C21_NormalizeIdempotent ==
    /\ Len(normalized) >= 1 =>
           /\ normalized[1] = JoinSpace(SplitWhitespace(clause_text))
           /\ WhitespaceNormal(normalized[1])
           /\ clause_text = <<>> => normalized[1] = <<>>
    /\ Len(normalized) >= 2 => normalized[2] = normalized[1]

\* A text of two words or more with leading whitespace, two or more of its
\* whitespace characters being removed, was normalized twice.
C21_Witness ==
    /\ Len(normalized) = 2
    /\ Len(SplitWhitespace(clause_text)) >= 2
    /\ Len(clause_text) > Len(normalized[1]) + 1
    /\ clause_text[1] \in Whitespace

\* The highlighted runs whose region lists the ref_id of segment k.
RunsListing(k) ==
    {i \in HighlightRuns :
        \E j \in 1..Len(StrSplit(result[i].data_ref_ids, ",")) :
            StrSplit(result[i].data_ref_ids, ",")[j] = SpanRefId(k - 1)}

\* C22: after a click on the annotation of segment k the active highlighted
\* runs are exactly those whose region lists the ref_id of segment k, and
\* the first of them, if any, is the one scrolled to.
C22_AnnotationClickExact ==
    dom.handler = "annotationClick" =>
        /\ dom.active = RunsListing(dom.clicked)
        /\ dom.active # {} =>
               /\ dom.scroll_highlight \in dom.active
               /\ \A i \in dom.active : dom.scroll_highlight <= i

\* The ids recorded on the highlighted run that was clicked.
ClickedIds == StrSplit(result[dom.clicked].data_ref_ids, ",")

\* C29: a click on a highlighted run calls the handler with the first id of
\* the run's list and scrolls to that annotation alone, whose body is then
\* displayed; the run records the ref_id string of its region, and its
\* badges are the numbers of the listed ids, in list order.
C29_HighlightClickFirst ==
    dom.handler = "highlightClick" =>
        /\ dom.arg = ClickedIds[1]
        /\ dom.scroll_annotation = ClickedIds[1]
        /\ dom.scroll_highlight = 0
        /\ ClickedIds[1] \notin dom.hidden
        /\ result[dom.clicked].data_ref_ids = merged_segments[dom.clicked \div 2].ref_id
        /\ Len(result[dom.clicked].ref_badges) = Len(ClickedIds)
        /\ \A j \in 1..Len(ClickedIds) :
              <<"r", "e", "f">> \o result[dom.clicked].ref_badges[j] = ClickedIds[j]

\* The clicked run is a region merged from the spans of two segments.
C29_Witness ==
    /\ dom.handler = "highlightClick"
    /\ SpansNonEmpty
    /\ Len(ClickedIds) = 2
    /\ ClickedIds[1] # ClickedIds[2]
    /\ dom.scroll_annotation # ClickedIds[2]

\* The records equivalent to a list of plain strings.
AsRecords(segs) ==
    [k \in 1..Len(segs) |->
        [problematic_text |-> segs[k].str, explanation |-> segs[k].str,
         severity |-> "medium"]]

AllPlainStrings ==
    /\ problematic_segments # <<>>
    /\ \A k \in 1..Len(problematic_segments) : IsStr(problematic_segments[k])

\* C24: given a list of plain strings the wrapper raises no error and
\* returns the spans, regions (with ref_ids and severities) and runs that
\* the analyzer computes for the equivalent records.
C24_WrapperPlainStrings ==
    (pc # "ready" /\ AllPlainStrings) =>
        LET records == AsRecords(problematic_segments)
            located == LocateAll(NormalizedClause, records, Len(records))
            merged  == MergeOverlapping(SortByStart(located))
        IN  /\ pc = "highlighted"
            /\ segments = located
            /\ merged_segments = merged
            /\ result = BuildResult(NormalizedClause, merged, 0)
            /\ \A i \in 1..Len(merged_segments) : merged_segments[i].severity = "medium"

\* Two plain strings, both located, in two regions or one.
C24_Witness ==
    /\ pc = "highlighted"
    /\ AllPlainStrings
    /\ Len(problematic_segments) = 2
    /\ SpansNonEmpty
    /\ SpansOf(1) # {} /\ SpansOf(2) # {}

\* The clause shown by the current page.
CurrentClause == session.clauses[session.current]

FirstSpans(region) ==
    {j \in Contributing(region) : segments[j].start = region.start}

\* Position of an id in a list of ids (0 when it is not listed).
IdPos(ids, id) ==
    IF \E p \in 1..Len(ids) : ids[p] = id
    THEN CHOOSE p \in 1..Len(ids) : ids[p] = id /\ \A q \in 1..(p - 1) : ids[q] # id
    ELSE 0

\* C25: among the spans of a region that tie on the region's start, the
\* ids are listed in input order of their segments, and the first id of the
\* region is that of the earliest such span (`segments` lists the spans in
\* input order of their segments).
C25_StableTies ==
    Highlighted =>
        \A i \in 1..Len(merged_segments) :
            LET ids == RegionRefIds(merged_segments[i])
                first == FirstSpans(merged_segments[i])
            IN  /\ first # {}
                /\ \A j \in first :
                      (\A k \in first : j <= k) => ids[1] = segments[j].ref_id
                /\ \A j, k \in first :
                      (j < k /\ segments[j].ref_id # segments[k].ref_id)
                          => /\ IdPos(ids, segments[j].ref_id) >= 1
                             /\ IdPos(ids, segments[j].ref_id)
                                    < IdPos(ids, segments[k].ref_id)

\* The spans of two segments start a region at the same offset.
C25_Witness ==
    /\ pc = "highlighted"
    /\ SpansNonEmpty
    /\ \E i \in 1..Len(merged_segments) :
          \E j, k \in FirstSpans(merged_segments[i]) :
              /\ segments[j].ref_id # segments[k].ref_id
              /\ segments[j].end # segments[k].end

\* The matches of the k-th excerpt in the clause normalized once.
MatchesInNormalized(k) ==
    ReFindIter(ReParse(LocatorPattern(NormalizedText(k))), NormalizedClause, 0)

\* C26: the text of the normalized clause between the offsets of every span
\* of a non-empty excerpt is the normalized excerpt, the span is as long as
\* the normalized excerpt, and the spans are the matches in the clause
\* normalized once: the second normalization inside the locator moves none.
C26_OffsetsInNormalized ==
    Highlighted =>
        \A k \in 1..Len(problematic_segments) :
            NormalizedText(k) # <<>> =>
                /\ \A j \in SpansOf(k) :
                      /\ Slice(NormalizedClause, segments[j].start, segments[j].end)
                             = NormalizedText(k)
                      /\ segments[j].end - segments[j].start = Len(NormalizedText(k))
                /\ {<<segments[j].start, segments[j].end>> : j \in SpansOf(k)}
                       = {MatchesInNormalized(k)[m] : m \in 1..Len(MatchesInNormalized(k))}

\* A span whose offsets, read in the original clause text, do not hold the
\* excerpt: the original text has whitespace that the normalized one lacks.
C26_Witness ==
    /\ pc = "highlighted"
    /\ Len(problematic_segments) = 1
    /\ NormalizedText(1) # <<>>
    /\ \E j \in SpansOf(1) :
          Slice(clause_text, segments[j].start, segments[j].end) # NormalizedText(1)

MinOf(S) == CHOOSE m \in S : \A x \in S : m <= x

\* C27: a region starts at the least start and ends at the greatest end of
\* the spans merged into it, and each of its character positions lies inside
\* one of those spans.
C27_RegionCoveredBySpans ==
    Highlighted =>
        \A i \in 1..Len(merged_segments) :
            LET region == merged_segments[i]
                spans  == Contributing(region)
            IN  /\ spans # {}
                /\ region.start = MinOf({segments[j].start : j \in spans})
                /\ region.end = MaxOf({segments[j].end : j \in spans})
                /\ \A c \in region.start..(region.end - 1) :
                      \E j \in spans : segments[j].start <= c /\ c < segments[j].end

\* A region longer than each of the spans merged into it.
C27_Witness ==
    /\ pc = "highlighted"
    /\ SpansNonEmpty
    /\ \E i \in 1..Len(merged_segments) :
          \A j \in Contributing(merged_segments[i]) :
              segments[j].end - segments[j].start
                  < merged_segments[i].end - merged_segments[i].start

\* The orders in which n segments can be given.
SegmentOrders(n) ==
    {p \in [1..n -> 1..n] : \A i, j \in 1..n : p[i] = p[j] => i = j}

\* The regions without their ids.
Boundaries(regions) ==
    [i \in 1..Len(regions) |->
        [start |-> regions[i].start, end |-> regions[i].end,
         severity |-> regions[i].severity]]

\* The regions computed for the segments given in the order p.
RegionsInOrder(p) ==
    LET permuted == [i \in 1..Len(problematic_segments) |-> problematic_segments[p[i]]]
    IN  MergeOverlapping(SortByStart(LocateAll(NormalizedClause, permuted, Len(permuted))))

\* C28: for every order of the segments the regions have the same starts,
\* ends and severities, in the same sequence, as for the order given.
C28_OrderIndependent ==
    Highlighted =>
        \A p \in SegmentOrders(Len(problematic_segments)) :
            Boundaries(RegionsInOrder(p)) = Boundaries(merged_segments)

\* Two segments of different severity merged into one region, for which
\* the other order gives other ids.
C28_Witness ==
    /\ pc = "highlighted"
    /\ SpansNonEmpty
    /\ Len(problematic_segments) = 2
    /\ Len(merged_segments) = 1
    /\ \E j, k \in 1..Len(segments) : segments[j].severity # segments[k].severity
    /\ \E p \in SegmentOrders(2) : RegionsInOrder(p) # merged_segments

====
